---- MODULE Spec2Model ----
(***************************************************************************)
(* Contact Sync of givebutter_report: the import of output.csv into a      *)
(* remote Google Contacts directory, as written in google_upload.py        *)
(* (import_to_google_contacts_for_service, modify_membership,              *)
(* get_all_contacts) and in its older copy ticket_parse.py                 *)
(* (import_to_google_contacts).                                            *)
(*                                                                         *)
(* A text (an e-mail, a label, a group name) is a sequence of tokens; the  *)
(* token " " is whitespace, every other token is a run of non-blank        *)
(* characters.  A resource name (people/c1, contactGroups/g1) is a         *)
(* positive number; 0 stands for "no resource".                            *)
(***************************************************************************)
EXTENDS Integers, Sequences, FiniteSets, TLC

\* ------------------------------------------------------------------ bounds
MaxRows == 2
MaxFaults == 1
MaxOtherWrites == 1

\* --------------------------------------------------------- program constants
max_retries == 5
base_delay == 1

Rider == <<"2025_Rider">>
Volunteer == <<"2025_Volunteer">>
Friends == <<"Friends">>

target_groups == {Rider, Volunteer}

\* ------------------------------------------------------------ text helpers
IsSpace(c) == c = " "

RECURSIVE LStrip(_)
LStrip(s) == IF s = <<>> THEN s
             ELSE IF IsSpace(Head(s)) THEN LStrip(Tail(s)) ELSE s

RECURSIVE RStrip(_)
RStrip(s) == IF s = <<>> THEN s
             ELSE IF IsSpace(s[Len(s)]) THEN RStrip(SubSeq(s, 1, Len(s) - 1)) ELSE s

\* str.strip()
Strip(s) == RStrip(LStrip(s))

LowerTok(c) == CASE c = "J" -> "j"
                 [] c = "A" -> "a"
                 [] OTHER -> c

\* str.lower()
Lower(s) == [i \in 1..Len(s) |-> LowerTok(s[i])]

HasUpper(s) == \E i \in 1..Len(s) : LowerTok(s[i]) # s[i]

\* ------------------------------------------------------------------ inputs
EmailInputs == { <<"J">>, <<"j", " ">>, <<" ">> }
LabelInputs == { Rider, <<"Friends", " ">> }
RowInputs == [email : EmailInputs, label : LabelInputs]

RECURSIVE SeqsUpTo(_, _)
SeqsUpTo(S, n) == IF n = 0 THEN { <<>> }
                  ELSE LET shorter == SeqsUpTo(S, n - 1)
                       IN shorter \cup { Append(q, x) : q \in { t \in shorter : Len(t) = n - 1 }, x \in S }

CsvInputs == SeqsUpTo(RowInputs, MaxRows)

GroupNames == { Rider, Volunteer, Friends }

Max(S) == CHOOSE x \in S : \A y \in S : y <= x

VARIABLES
    impl,                      \* which copy of the import runs
    csv,                       \* the rows of the CSV file (the same file in every run)
    groups,                    \* remote: group resource -> name
    contacts,                  \* remote: contact resource -> [email, memberships]
    nextRes,                   \* remote: the next resource name the service hands out
    run,                       \* number of the current invocation
    pc,                        \* position in the current invocation
    existing_groups,           \* the listing fetched at the start of the run
    gi,                        \* index of the delete loop in existing_groups
    group_name_to_resource,
    contacts_cache,
    ri,                        \* index of the current CSV row
    group_resource,
    contact_resource,
    result,                    \* the person createContact returned for this row, or None
    attempt,                   \* modify_membership: i
    delay,                     \* modify_membership: delay
    sleeps,                    \* modify_membership: the waits of the current call
    lastStatus,                \* modify_membership: the status of the latest response, 0 outside a call
    addCalls,                  \* this run: the (contact, group) pairs given to members.modify
    createCalls,               \* this run: the e-mails given to people.createContact, with the resource returned
    deleteFailed,              \* this run: "Failed to delete group" was printed
    skipped,                   \* this run: rows for which "Max retries exceeded" was printed
    faults,                    \* remote calls so far that met an error other than a 409
    otherWrites                \* groups created by another writer so far

\* the table steps that run before the import (process_mv_sheets, main of
\* transaction_parse.py)
VARIABLES
    data_map,                  \* the mapping file (data_map.txt, name_mapping.csv)
    mapping_dict,              \* what was loaded from it (df_mapping in transaction_parse.py)
    data,                      \* the rows read from the sheets (tickets_df in transaction_parse.py)
    all_rows,                  \* the rows of output.csv (the corrected tickets_df)
    once                       \* the rows a first application produced, when the step is applied again

recon == << data_map, mapping_dict, data, all_rows, once >>

\* the report writers (format_data, main of transaction_parse.py)
VARIABLES
    wb,                        \* the workbook: its sheets in the order of their creation
    sheet_name,                \* the sheet names derived so far, one per category
    printed                    \* the lines printed so far

sheets == << wb, sheet_name, printed >>

\* save_and_compare_df
VARIABLES
    output_dir,                \* the files of the output directory
    now                        \* int(time.time())

snap == << output_dir, now >>

\* get_tickets and get_campaign_members
VARIABLES
    page,
    results,
    requests,                  \* the page numbers asked of the API so far
    api                        \* the pages the API holds, each with its items

pager == << page, results, requests, api >>

vars == << impl, csv, groups, contacts, nextRes, run, pc, existing_groups, gi,
           group_name_to_resource, contacts_cache, ri, group_resource,
           contact_resource, result, attempt, delay, sleeps, lastStatus, addCalls,
           createCalls, deleteFailed, skipped, faults, otherWrites,
           recon, sheets, snap, pager >>

remote == << groups, contacts, nextRes >>
locals == << existing_groups, gi, group_name_to_resource, contacts_cache, ri,
             group_resource, contact_resource, result >>
retry == << attempt, delay, sleeps, lastStatus >>
logs == << addCalls, createCalls, deleteFailed, skipped >>

None == [resourceName |-> 0, memberships |-> {}]
EmptyMap == [x \in {} |-> 0]

\* everything of one import but the copy that runs and its position
sync == << csv, groups, contacts, nextRes, run, existing_groups, gi,
           group_name_to_resource, contacts_cache, ri, group_resource,
           contact_resource, result, attempt, delay, sleeps, lastStatus, addCalls,
           createCalls, deleteFailed, skipped, faults, otherWrites >>

\* no mapping file in the working directory
NoFile == [state |-> "missing", columns |-> <<>>, lines |-> <<>>]

\* the steps beside the running one have not run: their variables keep the
\* values of a fresh start
EtlIdle(running) ==
    /\ running \in { "recon", "sheets", "snap" } \/ data = <<>>
    /\ running = "recon" \/ /\ data_map = NoFile
                            /\ mapping_dict = EmptyMap
                            /\ all_rows = <<>>
                            /\ once = <<>>
    /\ running = "sheets" \/ /\ wb = <<>>
                             /\ sheet_name = <<>>
    /\ running \in { "sheets", "snap" } \/ printed = <<>>
    /\ running = "snap" \/ /\ output_dir = {}
                           /\ now = 0
    /\ running = "pager" \/ /\ page = 1
                            /\ results = <<>>
                            /\ requests = <<>>
                            /\ api = << <<>> >>

\* -------------------------------------------------------- remote directory
\* contactGroups.list: the groups in the order of their resource names
NthRes(D, i) == CHOOSE r \in D : Cardinality({ x \in D : x < r }) = i - 1

ListGroupsResponse == [ i \in 1..Cardinality(DOMAIN groups) |->
                          [ name |-> groups[NthRes(DOMAIN groups, i)],
                            resourceName |-> NthRes(DOMAIN groups, i) ] ]

NameExists(n) == \E g \in DOMAIN groups : groups[g] = n

\* contactGroups.delete: the group goes, and with it every membership in it
DeleteGroup(r) == /\ groups' = [ g \in DOMAIN groups \ {r} |-> groups[g] ]
                  /\ contacts' = [ c \in DOMAIN contacts |->
                                     [ contacts[c] EXCEPT !.memberships = @ \ {r} ] ]
                  /\ UNCHANGED nextRes

\* contactGroups.create
CreateGroup(n) == /\ groups' = groups @@ (nextRes :> n)
                  /\ nextRes' = nextRes + 1
                  /\ UNCHANGED contacts

\* people.createContact
CreatePerson(e) == /\ contacts' = contacts @@ (nextRes :> [email |-> e, memberships |-> {}])
                   /\ nextRes' = nextRes + 1
                   /\ UNCHANGED groups

\* contactGroups.members.modify with resourceNamesToAdd
AddMember(g, c) == /\ contacts' = [ contacts EXCEPT ![c].memberships = @ \cup {g} ]
                   /\ UNCHANGED << groups, nextRes >>

Members(g) == { c \in DOMAIN contacts : g \in contacts[c].memberships }

\* get_all_contacts: every person under its stripped, lowercased e-mail; a
\* later person replaces an earlier one with the same key; empty keys are left out
CacheKey(c) == Lower(Strip(contacts[c].email))

get_all_contacts ==
    LET keys == { CacheKey(c) : c \in DOMAIN contacts } \ { <<>> }
    IN [ k \in keys |->
           LET c == Max({ x \in DOMAIN contacts : CacheKey(x) = k })
           IN [ resourceName |-> c, memberships |-> contacts[c].memberships ] ]

\* ---------------------------------------------------------- the current row
contact_email == Lower(Strip(csv[ri].email))
group_label == Strip(csv[ri].label)

CanFail == faults < MaxFaults

Abort == /\ pc' = "aborted"
         /\ faults' = faults + 1

\* the end of the loop body: time.sleep(API_SLEEP) and the next row
NextRow == /\ ri' = ri + 1
           /\ pc' = IF ri = Len(csv) THEN "done"
                    ELSE IF impl = "google_upload" THEN "row" ELSE "tp_create"

\* ------------------------------------------------------ the initial states
\* A directory before the first run: some of the three groups exist, and at most
\* one contact, stored with an upper-case e-mail, belongs to some of them.
NameOrder == << Rider, Volunteer, Friends >>

GroupsOf(S) ==
    LET idx == { i \in 1..Len(NameOrder) : NameOrder[i] \in S }
    IN [ r \in 1..Cardinality(idx) |-> NameOrder[NthRes(idx, r)] ]

InitGroupSets == { {}, { Rider, Friends } }

InitDirectories ==
    { [ groups |-> GroupsOf(S), contacts |-> EmptyMap, nextRes |-> Cardinality(S) + 1 ]
        : S \in InitGroupSets }
    \cup
    { [ groups |-> GroupsOf(d[1]),
        contacts |-> (Cardinality(d[1]) + 1) :> [ email |-> <<"J">>, memberships |-> d[2] ],
        nextRes |-> Cardinality(d[1]) + 2 ]
        : d \in { x \in InitGroupSets \X (SUBSET (1..Len(NameOrder))) :
                    x[2] \subseteq 1..Cardinality(x[1]) } }

Impls == { "google_upload", "ticket_parse" }

StartOfRun ==
    /\ existing_groups = <<>>
    /\ gi = 1
    /\ group_name_to_resource = EmptyMap
    /\ contacts_cache = EmptyMap
    /\ ri = 1
    /\ group_resource = 0
    /\ contact_resource = 0
    /\ result = None
    /\ attempt = 0
    /\ delay = base_delay
    /\ sleeps = <<>>
    /\ lastStatus = 0
    /\ addCalls = <<>>
    /\ createCalls = <<>>
    /\ deleteFailed = FALSE
    /\ skipped = {}

Start ==
    /\ impl \in Impls
    /\ csv \in CsvInputs
    /\ \E d \in InitDirectories :
          /\ groups = d.groups
          /\ contacts = d.contacts
          /\ nextRes = d.nextRes
    /\ run = "first"
    /\ pc = "list_groups"
    /\ StartOfRun
    /\ EtlIdle("import")

Init ==
    /\ Start
    /\ faults = 0
    /\ otherWrites = 0

\* ------------------------------------- import_to_google_contacts_for_service
\* groups_response = service.contactGroups().list().execute()
ListGroups ==
    /\ UNCHANGED << recon, sheets, snap, pager >>
    /\ impl = "google_upload"
    /\ pc = "list_groups"
    /\ \/ /\ existing_groups' = ListGroupsResponse
          /\ pc' = "delete_loop"
          /\ UNCHANGED faults
       \/ /\ CanFail
          /\ Abort
          /\ UNCHANGED existing_groups
    /\ UNCHANGED << impl, csv, remote, run, gi, group_name_to_resource, contacts_cache,
                    ri, group_resource, contact_resource, result, retry, logs, otherWrites >>

\* variants of IsTarget: a test that selects every group, and one that selects none
IsTarget_all(name) == TRUE

IsTarget_none(name) == FALSE

\* the test that selects the groups to delete
IsTarget(name) == name \in target_groups

\* variant of KeepsResource: the assignment runs for every listed group
KeepsResource_all(name) == TRUE

\* the else branch of that test: the groups whose resource the run keeps
KeepsResource(name) == ~IsTarget(name)

\* one iteration of "for group in existing_groups"
DeleteStep ==
    /\ UNCHANGED << recon, sheets, snap, pager >>
    /\ impl = "google_upload"
    /\ pc = "delete_loop"
    /\ gi <= Len(existing_groups)
    /\ LET name == existing_groups[gi].name
           resource == existing_groups[gi].resourceName
       IN /\ IF IsTarget(name)
             THEN \/ /\ DeleteGroup(resource)
                     /\ UNCHANGED << deleteFailed, faults >>
                  \/ /\ CanFail
                     /\ deleteFailed' = TRUE
                     /\ faults' = faults + 1
                     /\ UNCHANGED remote
             ELSE UNCHANGED << remote, deleteFailed, faults >>
          /\ group_name_to_resource' =
                IF KeepsResource(name)
                THEN [ n \in DOMAIN group_name_to_resource \cup { name } |->
                         IF n = name THEN resource ELSE group_name_to_resource[n] ]
                ELSE group_name_to_resource
    /\ gi' = gi + 1
    /\ UNCHANGED << impl, csv, run, pc, existing_groups, contacts_cache, ri, group_resource,
                    contact_resource, result, retry, addCalls, createCalls, skipped,
                    otherWrites >>

\* csv_rows = list(reader); contacts_cache = get_all_contacts(service)
FetchContacts ==
    /\ UNCHANGED << recon, sheets, snap, pager >>
    /\ impl = "google_upload"
    /\ pc = "delete_loop"
    /\ gi > Len(existing_groups)
    /\ \/ /\ contacts_cache' = get_all_contacts
          /\ pc' = IF Len(csv) = 0 THEN "done" ELSE "row"
          /\ UNCHANGED faults
       \/ /\ CanFail
          /\ Abort
          /\ UNCHANGED contacts_cache
    /\ UNCHANGED << impl, csv, remote, run, existing_groups, gi, group_name_to_resource,
                    ri, group_resource, contact_resource, result, retry, logs, otherWrites >>

\* a 409 from contactGroups.create is caught for these labels only
HandlesConflict(label) == label \in target_groups

\* the first group of a listing with the given name, 0 when there is none
FindGroup(listing, label) ==
    LET hits == { i \in 1..Len(listing) : listing[i].name = label }
    IN IF hits = {} THEN 0 ELSE listing[NthRes(hits, 1)].resourceName

\* the top of the loop body: the group of the row's label, created when unknown
ResolveGroup ==
    /\ UNCHANGED << recon, sheets, snap, pager >>
    /\ impl = "google_upload"
    /\ pc = "row"
    /\ result' = None
    /\ IF group_label \in DOMAIN group_name_to_resource
       THEN /\ group_resource' = group_name_to_resource[group_label]
            /\ pc' = "check_contact"
            /\ UNCHANGED << remote, group_name_to_resource, faults >>
       ELSE IF NameExists(group_label)
       THEN \* the service answers 409
            /\ pc' = IF HandlesConflict(group_label) THEN "relist" ELSE "aborted"
            /\ UNCHANGED << remote, group_name_to_resource, group_resource, faults >>
       ELSE \/ /\ CreateGroup(group_label)
               /\ group_resource' = nextRes
               /\ group_name_to_resource' = group_name_to_resource @@ (group_label :> nextRes)
               /\ pc' = "check_contact"
               /\ UNCHANGED faults
            \/ /\ CanFail
               /\ Abort
               /\ UNCHANGED << remote, group_name_to_resource, group_resource >>
    /\ UNCHANGED << impl, csv, run, existing_groups, gi, contacts_cache, ri,
                    contact_resource, retry, logs, otherWrites >>

\* the 409 handler: list the groups again and take the one with the label's name
RelistGroups ==
    /\ UNCHANGED << recon, sheets, snap, pager >>
    /\ impl = "google_upload"
    /\ pc = "relist"
    /\ \/ LET found == FindGroup(ListGroupsResponse, group_label)
          IN IF found # 0
             THEN /\ group_resource' = found
                  /\ group_name_to_resource' = group_name_to_resource @@ (group_label :> found)
                  /\ pc' = "check_contact"
                  /\ UNCHANGED faults
             ELSE /\ pc' = "aborted"
                  /\ UNCHANGED << group_resource, group_name_to_resource, faults >>
       \/ /\ CanFail
          /\ Abort
          /\ UNCHANGED << group_resource, group_name_to_resource >>
    /\ UNCHANGED << impl, csv, remote, run, existing_groups, gi, contacts_cache, ri,
                    contact_resource, result, retry, logs, otherWrites >>

\* variant of membership_found: the test never finds a membership
membership_found_never(person, resource) == FALSE

\* what the import takes as "already a member"
membership_found(person, resource) == resource \in person.memberships

\* found_contact = contacts_cache.get(contact_email) and the membership test
CheckContact ==
    /\ UNCHANGED << recon, sheets, snap, pager >>
    /\ impl = "google_upload"
    /\ pc = "check_contact"
    /\ IF contact_email \in DOMAIN contacts_cache
       THEN LET found_contact == contacts_cache[contact_email]
            IN /\ contact_resource' = found_contact.resourceName
               /\ IF membership_found(found_contact, group_resource)
                  THEN /\ NextRow
                       /\ UNCHANGED << retry, addCalls >>
                  ELSE /\ pc' = "modify"
                       /\ attempt' = 0
                       /\ delay' = base_delay
                       /\ sleeps' = <<>>
                       /\ lastStatus' = 0
                       /\ addCalls' = Append(addCalls, [ row |-> ri, contact |-> found_contact.resourceName,
                                                         group |-> group_resource ])
                       /\ UNCHANGED ri
       ELSE /\ pc' = "create_contact"
            /\ UNCHANGED << contact_resource, ri, retry, addCalls >>
    /\ UNCHANGED << impl, csv, remote, run, existing_groups, gi, group_name_to_resource,
                    contacts_cache, group_resource, result, createCalls, deleteFailed,
                    skipped, faults, otherWrites >>

\* result = service.people().createContact(body=contact_body).execute()
CreateContact ==
    /\ UNCHANGED << recon, sheets, snap, pager >>
    /\ impl = "google_upload"
    /\ pc = "create_contact"
    /\ \/ /\ CreatePerson(contact_email)
          /\ result' = [ resourceName |-> nextRes, memberships |-> {} ]
          /\ contact_resource' = nextRes
          /\ pc' = "modify"
          /\ attempt' = 0
          /\ delay' = base_delay
          /\ sleeps' = <<>>
          /\ lastStatus' = 0
          /\ addCalls' = Append(addCalls, [ row |-> ri, contact |-> nextRes, group |-> group_resource ])
          /\ createCalls' = Append(createCalls, [ email |-> contact_email, resourceName |-> nextRes ])
          /\ UNCHANGED faults
       \/ /\ CanFail
          /\ Abort
          /\ UNCHANGED << remote, result, contact_resource, retry, addCalls, createCalls >>
    /\ UNCHANGED << impl, csv, run, existing_groups, gi, group_name_to_resource,
                    contacts_cache, ri, group_resource, deleteFailed, skipped,
                    otherWrites >>

\* variant of AfterModify: the created person is not put into the cache
AfterModify_without_cache ==
    /\ attempt' = 0
    /\ delay' = base_delay
    /\ sleeps' = <<>>
    /\ lastStatus' = 0
    /\ contacts_cache' = contacts_cache
    /\ NextRow

\* after modify_membership returns: the cache takes the created person, and the
\* loop goes to the next row
AfterModify ==
    /\ attempt' = 0
    /\ delay' = base_delay
    /\ sleeps' = <<>>
    /\ lastStatus' = 0
    /\ contacts_cache' = IF result # None
                         THEN [ k \in DOMAIN contacts_cache \cup { contact_email } |->
                                  IF k = contact_email THEN result ELSE contacts_cache[k] ]
                         ELSE contacts_cache
    /\ NextRow

\* variant of Retryable: every error status is retried
Retryable_any(status) == TRUE

\* the status on which modify_membership waits and tries again
Retryable(status) == status = 429

\* one pass of "for i in range(max_retries)" in modify_membership
ModifyAttempt ==
    /\ UNCHANGED << recon, sheets, snap, pager >>
    /\ impl = "google_upload"
    /\ pc = "modify"
    /\ attempt < max_retries
    /\ \/ \* the call succeeds: return result
          /\ group_resource \in DOMAIN groups
          /\ AddMember(group_resource, contact_resource)
          /\ AfterModify
          /\ UNCHANGED faults
       \/ \E status \in { 429, 500 } :
             IF Retryable(status)
             THEN /\ attempt > 0 \/ CanFail
                  /\ faults' = IF attempt = 0 THEN faults + 1 ELSE faults
                  /\ sleeps' = Append(sleeps, delay)
                  /\ delay' = delay * 2
                  /\ attempt' = attempt + 1
                  /\ lastStatus' = status
                  /\ UNCHANGED << remote, pc, contacts_cache, ri >>
             ELSE /\ attempt > 0 \/ CanFail
                  /\ pc' = "aborted"
                  /\ faults' = IF attempt = 0 THEN faults + 1 ELSE faults
                  /\ lastStatus' = status
                  /\ UNCHANGED << remote, contacts_cache, ri, attempt, delay, sleeps >>
    /\ UNCHANGED << impl, csv, run, existing_groups, gi, group_name_to_resource,
                    group_resource, contact_resource, result, addCalls, createCalls,
                    deleteFailed, skipped, otherWrites >>

\* variant of ModifyGiveUp: running out of attempts raises
ModifyGiveUp_raises ==
    /\ UNCHANGED << recon, sheets, snap, pager >>
    /\ impl = "google_upload"
    /\ pc = "modify"
    /\ attempt >= max_retries
    /\ pc' = "aborted"
    /\ UNCHANGED << impl, csv, remote, run, locals, retry, logs, faults, otherWrites >>

\* the loop of modify_membership ran out: "Max retries exceeded", return None
ModifyGiveUp ==
    /\ UNCHANGED << recon, sheets, snap, pager >>
    /\ impl = "google_upload"
    /\ pc = "modify"
    /\ attempt >= max_retries
    /\ skipped' = skipped \cup {ri}
    /\ AfterModify
    /\ UNCHANGED << impl, csv, remote, run, existing_groups, gi, group_name_to_resource,
                    group_resource, contact_resource, result, addCalls, createCalls,
                    deleteFailed, faults, otherWrites >>

\* another writer of the same directory creates a group between two calls of the run
ConcurrentCreate ==
    /\ UNCHANGED << recon, sheets, snap, pager >>
    /\ pc = "row"
    /\ otherWrites < MaxOtherWrites
    /\ \E n \in GroupNames :
          /\ ~NameExists(n)
          /\ CreateGroup(n)
    /\ otherWrites' = otherWrites + 1
    /\ UNCHANGED << impl, csv, run, pc, locals, retry, logs, faults >>

\* the import is run again with the same file
StartNextRun ==
    /\ UNCHANGED << recon, sheets, snap, pager >>
    /\ pc = "done"
    /\ run = "first"
    /\ run' = "second"
    /\ pc' = "list_groups"
    /\ existing_groups' = <<>>
    /\ gi' = 1
    /\ group_name_to_resource' = EmptyMap
    /\ contacts_cache' = EmptyMap
    /\ ri' = 1
    /\ group_resource' = 0
    /\ contact_resource' = 0
    /\ result' = None
    /\ attempt' = 0
    /\ delay' = base_delay
    /\ sleeps' = <<>>
    /\ lastStatus' = 0
    /\ addCalls' = <<>>
    /\ createCalls' = <<>>
    /\ deleteFailed' = FALSE
    /\ skipped' = {}
    /\ UNCHANGED << impl, csv, remote, faults, otherWrites >>

\* ------------------------------------ ticket_parse.import_to_google_contacts
\* the listing, cached as a dictionary from name to resource
TP_ListGroups ==
    /\ UNCHANGED << recon, sheets, snap, pager >>
    /\ impl = "ticket_parse"
    /\ pc = "list_groups"
    /\ \/ /\ existing_groups' = ListGroupsResponse
          /\ group_name_to_resource' =
                [ n \in { groups[g] : g \in DOMAIN groups } |->
                    Max({ g \in DOMAIN groups : groups[g] = n }) ]
          /\ pc' = IF Len(csv) = 0 THEN "done" ELSE "tp_create"
          /\ UNCHANGED faults
       \/ /\ CanFail
          /\ Abort
          /\ UNCHANGED << existing_groups, group_name_to_resource >>
    /\ UNCHANGED << impl, csv, remote, run, gi, contacts_cache, ri, group_resource,
                    contact_resource, result, retry, logs, otherWrites >>

\* the e-mail ticket_parse puts in the body of createContact
TP_Email(row) == row.email

\* every row creates a contact
TP_CreateContact ==
    /\ UNCHANGED << recon, sheets, snap, pager >>
    /\ impl = "ticket_parse"
    /\ pc = "tp_create"
    /\ \/ /\ CreatePerson(TP_Email(csv[ri]))
          /\ result' = [ resourceName |-> nextRes, memberships |-> {} ]
          /\ contact_resource' = nextRes
          /\ pc' = "tp_group"
          /\ createCalls' = Append(createCalls, [ email |-> TP_Email(csv[ri]), resourceName |-> nextRes ])
          /\ UNCHANGED faults
       \/ /\ CanFail
          /\ Abort
          /\ UNCHANGED << remote, result, contact_resource, createCalls >>
    /\ UNCHANGED << impl, csv, run, existing_groups, gi, group_name_to_resource,
                    contacts_cache, ri, group_resource, retry, addCalls, deleteFailed,
                    skipped, otherWrites >>

\* the group of the row's label, created when the dictionary lacks it
TP_EnsureGroup ==
    /\ UNCHANGED << recon, sheets, snap, pager >>
    /\ impl = "ticket_parse"
    /\ pc = "tp_group"
    /\ IF group_label \in DOMAIN group_name_to_resource
       THEN /\ group_resource' = group_name_to_resource[group_label]
            /\ pc' = "tp_modify"
            /\ addCalls' = Append(addCalls, [ row |-> ri, contact |-> contact_resource,
                                              group |-> group_name_to_resource[group_label] ])
            /\ UNCHANGED << remote, group_name_to_resource, faults >>
       ELSE IF NameExists(group_label)
       THEN /\ pc' = "aborted"
            /\ UNCHANGED << remote, group_name_to_resource, group_resource, addCalls, faults >>
       ELSE \/ /\ CreateGroup(group_label)
               /\ group_resource' = nextRes
               /\ group_name_to_resource' = group_name_to_resource @@ (group_label :> nextRes)
               /\ pc' = "tp_modify"
               /\ addCalls' = Append(addCalls, [ row |-> ri, contact |-> contact_resource, group |-> nextRes ])
               /\ UNCHANGED faults
            \/ /\ CanFail
               /\ Abort
               /\ UNCHANGED << remote, group_name_to_resource, group_resource, addCalls >>
    /\ UNCHANGED << impl, csv, run, existing_groups, gi, contacts_cache, ri,
                    contact_resource, result, retry, createCalls, deleteFailed, skipped,
                    otherWrites >>

\* service.contactGroups().members().modify(...).execute(), called once
TP_Modify ==
    /\ UNCHANGED << recon, sheets, snap, pager >>
    /\ impl = "ticket_parse"
    /\ pc = "tp_modify"
    /\ \/ /\ group_resource \in DOMAIN groups
          /\ AddMember(group_resource, contact_resource)
          /\ NextRow
          /\ UNCHANGED faults
       \/ /\ CanFail
          /\ Abort
          /\ UNCHANGED << remote, ri >>
    /\ UNCHANGED << impl, csv, run, existing_groups, gi, group_name_to_resource,
                    contacts_cache, group_resource, contact_resource, result, retry,
                    logs, otherWrites >>

\* ---------------------------------------------------------- specifications
\* one invocation, against a directory that may answer with errors and that
\* another writer may add groups to
Next ==
    \/ ListGroups
    \/ DeleteStep
    \/ FetchContacts
    \/ ResolveGroup
    \/ RelistGroups
    \/ CheckContact
    \/ CreateContact
    \/ ModifyAttempt
    \/ ModifyGiveUp
    \/ ConcurrentCreate
    \/ TP_ListGroups
    \/ TP_CreateContact
    \/ TP_EnsureGroup
    \/ TP_Modify

Spec == Init /\ [][Next]_vars

\* two invocations in succession with the same file, every remote call
\* succeeding and nobody else writing (no error and no other write is left
\* to happen)
InitTwice ==
    /\ Start
    /\ faults = MaxFaults
    /\ otherWrites = MaxOtherWrites

NextTwice ==
    \/ ListGroups
    \/ DeleteStep
    \/ FetchContacts
    \/ ResolveGroup
    \/ CheckContact
    \/ CreateContact
    \/ ModifyAttempt
    \/ TP_ListGroups
    \/ TP_CreateContact
    \/ TP_EnsureGroup
    \/ TP_Modify
    \/ StartNextRun

SpecTwice == InitTwice /\ [][NextTwice]_vars

\* ------------------------------------------------------------ properties
Service == impl = "google_upload"

Rows == 1..Len(csv)
RowEmail(r) == Lower(Strip(csv[r].email))
RowLabel(r) == Strip(csv[r].label)

\* the rows of this run for which modify_membership was called
RowsWithCall == { addCalls[i].row : i \in 1..Len(addCalls) }

\* the members of the groups with a given name
MembersOfName(n) == UNION { Members(g) : g \in { x \in DOMAIN groups : groups[x] = n } }

\* the lowercased e-mails of the CSV rows with a given label
Wanted(n) == { RowEmail(r) : r \in { x \in Rows : RowLabel(x) = n } }

\* the groups of the listing that the service no longer has
Gone == { i \in 1..Len(existing_groups) : existing_groups[i].resourceName \notin DOMAIN groups }

RECURSIVE Pow2(_)
Pow2(n) == IF n = 0 THEN 1 ELSE 2 * Pow2(n - 1)

\* C1 (as stated): the second of two runs in succession with the same CSV and no
\* other writer issues no contactGroups.members.modify call.
C1_SecondRunIssuesNoModify ==
    (Service /\ run = "second") => addCalls = <<>>

\* C1 (amended): with every remote call succeeding, the second run calls
\* members.modify for exactly the rows whose label is a managed group (deleted and
\* re-created by the run) or whose e-mail is empty (a new contact every run); a row
\* with another label and a non-empty e-mail gets no call.  (The older import of
\* ticket_parse.py calls it for every row of every run.)
RebuiltRows == { r \in Rows : RowLabel(r) \in target_groups \/ RowEmail(r) = <<>> }

C1_SecondRunModifiesOnlyRebuiltRows ==
    /\ (Service /\ run = "second") =>
          /\ RowsWithCall \subseteq RebuiltRows
          /\ pc = "done" => RowsWithCall = RebuiltRows
    /\ (~Service /\ run = "second" /\ pc = "done") => RowsWithCall = Rows

C1_Witness ==
    /\ Service
    /\ run = "second"
    /\ pc = "done"
    /\ RowsWithCall # {}
    /\ RowsWithCall # Rows

C3_AddOnlyWhenMissing ==
    Service =>
        /\ (pc = "modify" /\ attempt = 0) => contact_resource \notin Members(group_resource)
        /\ \A i, j \in 1..Len(addCalls) :
              (addCalls[i].contact = addCalls[j].contact /\ addCalls[i].group = addCalls[j].group) => i = j

\* C4: whenever members.modify is about to be called, the group resource it names
\* exists in the directory and is the group of the row's label.
C4_ModifiedGroupExists ==
    pc \in { "modify", "tp_modify" } =>
        /\ group_resource \in DOMAIN groups
        /\ groups[group_resource] = group_label

C4_Witness ==
    /\ Service
    /\ pc = "modify"
    /\ group_label \in target_groups
    /\ FindGroup(existing_groups, group_label) \notin { 0, group_resource }

\* C5: a 409 answer to the creation of the group of any label of the CSV makes the
\* import list the groups again; it does not raise.
Conflict ==
    /\ Service
    /\ pc = "row"
    /\ group_label \notin DOMAIN group_name_to_resource
    /\ NameExists(group_label)

C5_ConflictIsRefetched ==
    [][ (Conflict /\ pc' # pc) => pc' = "relist" ]_vars

\* C6: modify_membership makes at most max_retries attempts, tries again only after
\* a 429, waits base_delay * 2^(k-1) before the k-th retry, and returns at once
\* when an attempt succeeds.
C6_RetryPolicy ==
    /\ [](pc = "modify" =>
            /\ attempt <= max_retries
            /\ Len(sleeps) = attempt
            /\ \A k \in 1..Len(sleeps) : sleeps[k] = base_delay * Pow2(k - 1))
    /\ [][ pc = "modify" =>
            /\ (attempt' = attempt + 1 /\ pc' = "modify") => (lastStatus' = 429 /\ attempt < max_retries)
            /\ contacts' # contacts => (pc' # "modify" /\ attempt < max_retries) ]_vars

C6_Witness ==
    /\ pc = "modify"
    /\ attempt = max_retries
    /\ sleeps = << 1, 2, 4, 8, 16 >>

\* C7: when every attempt of a modification was rate-limited, the import does not
\* abort: it goes on with the row after it, or ends normally after the last row.
C7_ExhaustionDoesNotAbort ==
    [][ (pc = "modify" /\ attempt = max_retries /\ pc' # pc) =>
            /\ ri' = ri + 1
            /\ pc' = IF ri < Len(csv) THEN "row" ELSE "done" ]_vars

C7_Witness ==
    /\ pc = "done"
    /\ \E r \in skipped : r < Len(csv)

\* C8: only an error of the two initial fetches (group list, contact list) aborts
\* the run; an error met while a row is processed does not.
C8_OnlyInitialFetchAborts ==
    [][ (Service /\ pc' = "aborted") => pc \in { "list_groups", "delete_loop" } ]_vars

\* C9: a group disappears from the directory only when it is a listed group with
\* a managed name, and a group with another name keeps all its members.
C9_UnmanagedGroupsUntouched ==
    [][ \A g \in DOMAIN groups :
          /\ g \notin DOMAIN groups' =>
                /\ groups[g] \in target_groups
                /\ \E i \in 1..Len(existing_groups) : existing_groups[i].resourceName = g
          /\ groups[g] \notin target_groups =>
                /\ g \in DOMAIN groups'
                /\ Members(g) \subseteq Members(g)' ]_vars

C9_Witness ==
    /\ pc = "done"
    /\ Gone # {}
    /\ \E g \in DOMAIN groups : groups[g] \notin target_groups /\ Members(g) # {}

\* C10: the e-mail the import looks up in the contact cache, and the e-mail of
\* every contact it creates, contains no upper-case character.
C10_EmailsAreLowercased ==
    /\ pc \in { "check_contact", "create_contact" } => ~HasUpper(contact_email)
    /\ result # None => ~HasUpper(contacts[result.resourceName].email)

\* ======================================================================
\* Column Reconciler: the value correction of process_mv_sheets
\* (google_upload.py and its older copy in ticket_parse.py) and the e-mail
\* correction of main in transaction_parse.py
\* ======================================================================
MaxEntries == 2

TitleTok(c) == CASE c = "jo" -> "Jo"
                 [] c = "old" -> "Old"
                 [] c = "new" -> "New"
                 [] c = "newer" -> "Newer"
                 [] OTHER -> c

\* str.title()
Title(s) == [i \in 1..Len(s) |-> TitleTok(s[i])]

\* ---------------------------------------------------------------- inputs
IncorrectInputs == { <<"old">>, <<"new">> }
CorrectInputs == { <<"new">>, <<"newer">> }

\* the lines of data_map.txt: three columns in google_upload.py, two in ticket_parse.py
KeyedLines == [ticket : { <<"T1">>, <<"T2">> }, incorrect : IncorrectInputs, correct : CorrectInputs]
GlobalLines == [incorrect : IncorrectInputs, correct : CorrectInputs]

Unavailable == { NoFile, [state |-> "unreadable", columns |-> <<>>, lines |-> <<>>] }

MapFiles(Lines) ==
    Unavailable \cup { [state |-> "ok", columns |-> <<>>, lines |-> l] : l \in SeqsUpTo(Lines, MaxEntries) }

\* the rows of the MV sheets: First Name, Last Name, Email, Phone and the tag of the sheet
GlobalRows == [first_name : { <<"jo">>, <<"old">> }, last_name : { <<"Jo">> },
               email : { <<"old">>, <<"old", " ">>, <<"new">> },
               phone : { <<"555">>, <<" ", "555">> }, tag : { Rider, Volunteer }]

\* google_upload.py reads the Ticket Number as well
KeyedRows == { [ticket |-> t, first_name |-> r.first_name, last_name |-> r.last_name,
                email |-> r.email, phone |-> r.phone, tag |-> r.tag] :
               t \in { <<"T1">>, <<"T2">> }, r \in GlobalRows }

\* a workbook with no MV sheet, or with one row in one MV sheet
Tables(RowSet) == { <<>> } \cup { << r >> : r \in RowSet }

\* name_mapping.csv: a header and lines of two cells
TeamMemberCol == <<"Team member">>
EmailCol == <<"Email">>
HeaderInputs == { << TeamMemberCol, EmailCol >>,
                  << <<" ", "Team member">>, EmailCol >>,
                  << <<"Name">>, EmailCol >>,
                  << TeamMemberCol, <<"Mail">> >> }
NameFiles ==
    Unavailable
    \cup { [state |-> st, columns |-> <<>>, lines |-> <<>>] : st \in { "empty", "blank" } }
    \cup { [state |-> "ok", columns |-> h, lines |-> l] :
              h \in HeaderInputs,
              l \in SeqsUpTo({ << m, e >> : m \in { <<"J", " ", "S">>, <<"A", " ", "S">> },
                                              e \in CorrectInputs }, MaxEntries) }
TicketRows == [team_member : { <<"J", " ", "S">>, <<"A", " ", "S">> }, first_name : { <<"J">>, <<"A">> },
               email : IncorrectInputs]

\* ------------------------------------------------- loading data_map.txt
\* pd.read_csv raises for a file that is absent, cannot be parsed or has no line
ReadCsvRaises(file) == file.state # "ok" \/ file.lines = <<>>

\* google_upload.py: { ticket number: {"Incorrect", "Correct"} }; in a dict
\* built line by line the last line with a key gives the key its value
KeyedDict(lines) ==
    [ k \in { Strip(lines[i].ticket) : i \in 1..Len(lines) } |->
        LET last == Max({ i \in 1..Len(lines) : Strip(lines[i].ticket) = k })
        IN [ Incorrect |-> Strip(lines[last].incorrect),
             Correct |-> Strip(lines[last].correct) ] ]

\* ticket_parse.py: mapping_df.set_index("Incorrect")["Correct"].to_dict()
GlobalDict(lines) ==
    [ k \in { lines[i].incorrect : i \in 1..Len(lines) } |->
        lines[Max({ i \in 1..Len(lines) : lines[i].incorrect = k })].correct ]

\* try: read data_map.txt and build the dict; except Exception: mapping_dict = {}
LoadMapping ==
    /\ impl \in Impls
    /\ pc = "load_mapping"
    /\ mapping_dict' = IF ReadCsvRaises(data_map) THEN EmptyMap
                       ELSE IF impl = "google_upload" THEN KeyedDict(data_map.lines)
                       ELSE GlobalDict(data_map.lines)
    /\ pc' = "rows"
    /\ UNCHANGED << impl, sync, sheets, snap, pager, data_map, data, all_rows, once >>

\* ---------------------------------------------------- the loop over rows
\* variant of ValueMatches: every value of a row whose ticket has an entry matches
ValueMatches_any(entry, value) == TRUE

\* orig_email == mapping_dict[ticket_number]["Incorrect"]
ValueMatches(entry, value) == value = entry.Incorrect

\* google_upload.py, lines 278-289
KeyedEmail(mapping, ticket_number, orig_email) ==
    IF ticket_number \in DOMAIN mapping /\ ValueMatches(mapping[ticket_number], orig_email)
    THEN mapping[ticket_number].Correct
    ELSE orig_email

\* the ticket number is kept with the row so that the step can be applied to its output
KeyedContact(mapping, row) ==
    [ ticket |-> Strip(row.ticket),
      first_name |-> Title(Strip(row.first_name)),
      last_name |-> Title(Strip(row.last_name)),
      email |-> KeyedEmail(mapping, Strip(row.ticket), Strip(row.email)),
      phone |-> Strip(row.phone),
      tag |-> Strip(row.tag) ]

\* mapping_dict.get(value, value)
Substitute(mapping, value) == IF value \in DOMAIN mapping THEN mapping[value] ELSE value

\* ticket_parse.py, lines 138-143
GlobalContact(mapping, row) ==
    [ first_name |-> Title(Substitute(mapping, row.first_name)),
      last_name |-> Title(Substitute(mapping, row.last_name)),
      email |-> Substitute(mapping, row.email),
      phone |-> Substitute(mapping, row.phone),
      tag |-> Substitute(mapping, row.tag) ]

\* for _, row in data.iterrows(): ... all_rows.append(contact); output.csv is written
ReconcileRows ==
    /\ impl \in Impls
    /\ pc \in { "rows", "rows_again" }
    /\ all_rows' = [ i \in 1..Len(data) |->
                        IF impl = "google_upload" THEN KeyedContact(mapping_dict, data[i])
                        ELSE GlobalContact(mapping_dict, data[i]) ]
    /\ pc' = IF pc = "rows" THEN "written" ELSE "written_again"
    /\ UNCHANGED << impl, sync, sheets, snap, pager, data_map, mapping_dict, data, once >>

\* the correction is applied to its own output, with the mapping it has loaded
ApplyAgain ==
    /\ impl \in Impls
    /\ pc = "written"
    /\ once' = all_rows
    /\ data' = all_rows
    /\ pc' = "rows_again"
    /\ UNCHANGED << impl, sync, sheets, snap, pager, data_map, mapping_dict, all_rows >>

\* --------------------------------------------- main of transaction_parse.py
NoMapping == [loaded |-> FALSE, columns |-> <<>>, rows |-> <<>>]

\* lines 77-87: only a file that exists with a size above 0 is read, and only
\* pd.errors.EmptyDataError is caught
TX_LoadMapping ==
    /\ impl = "transaction_parse"
    /\ pc = "load_mapping"
    /\ \/ /\ data_map.state \in { "missing", "empty", "blank" }
          /\ mapping_dict' = NoMapping
          /\ pc' = "rows"
       \/ /\ data_map.state = "unreadable"
          /\ mapping_dict' = NoMapping
          /\ pc' = "failed"
       \/ /\ data_map.state = "ok"
          /\ mapping_dict' = IF data_map.lines = <<>> THEN NoMapping
                             ELSE [ loaded |-> TRUE,
                                    columns |-> [ i \in 1..Len(data_map.columns) |->
                                                    Strip(data_map.columns[i]) ],
                                    rows |-> data_map.lines ]
          /\ pc' = "rows"
    /\ UNCHANGED << impl, sync, sheets, snap, pager, data_map, data, all_rows, once >>

\* tickets_df['Team Member'].str.split(' ', n=1, expand=True)[0]
RECURSIVE FirstWord(_)
FirstWord(s) == IF s = <<>> \/ IsSpace(Head(s)) THEN <<>>
                ELSE << Head(s) >> \o FirstWord(Tail(s))

Mismatch(row) == Lower(FirstWord(row.team_member)) # Lower(row.first_name)

\* the position of a column of df_mapping, 0 for a column it does not have
Column(df, name) == IF \E i \in 1..Len(df.columns) : df.columns[i] = name
                    THEN CHOOSE i \in 1..Len(df.columns) : df.columns[i] = name
                    ELSE 0

\* df_mapping[df_mapping['Team member'] == team_member]
Entries(df, team_member) ==
    IF Column(df, TeamMemberCol) = 0 THEN {}
    ELSE { j \in 1..Len(df.rows) : df.rows[j][Column(df, TeamMemberCol)] = team_member }

\* a row for which line 105 or line 107 raises KeyError
Raises(df, row) ==
    /\ df.loaded
    /\ Mismatch(row)
    /\ \/ Column(df, TeamMemberCol) = 0
       \/ Entries(df, row.team_member) # {} /\ Column(df, EmailCol) = 0

\* tickets_df.loc[i, 'Email'] = mapping_entry.loc[0, 'Email']
TX_Email(df, row) ==
    IF df.loaded /\ Mismatch(row) /\ Entries(df, row.team_member) # {}
    THEN df.rows[CHOOSE j \in Entries(df, row.team_member) :
                    \A k \in Entries(df, row.team_member) : j <= k][Column(df, EmailCol)]
    ELSE row.email

\* lines 90-122: the e-mails of the mismatching rows are corrected, the name
\* columns are dropped
TX_CorrectEmails ==
    /\ impl = "transaction_parse"
    /\ pc = "rows"
    /\ IF \E i \in 1..Len(data) : Raises(mapping_dict, data[i])
       THEN /\ pc' = "failed"
            /\ UNCHANGED all_rows
       ELSE /\ all_rows' = [ i \in 1..Len(data) |->
                               [ team_member |-> data[i].team_member,
                                 email |-> TX_Email(mapping_dict, data[i]) ] ]
            /\ pc' = "written"
    /\ UNCHANGED << impl, sync, sheets, snap, pager, data_map, mapping_dict, data, once >>

\* ---------------------------------------------------------- specification
SyncIdle ==
    /\ csv = <<>>
    /\ groups = EmptyMap
    /\ contacts = EmptyMap
    /\ nextRes = 1
    /\ run = "first"
    /\ StartOfRun
    /\ faults = 0
    /\ otherWrites = 0

InitReconcile ==
    /\ SyncIdle
    /\ EtlIdle("recon")
    /\ pc = "load_mapping"
    /\ mapping_dict = EmptyMap
    /\ all_rows = <<>>
    /\ once = <<>>
    /\ \/ /\ impl = "google_upload"
          /\ data_map \in MapFiles(KeyedLines)
          /\ data \in Tables(KeyedRows)
       \/ /\ impl = "ticket_parse"
          /\ data_map \in MapFiles(GlobalLines)
          /\ data \in Tables(GlobalRows)
       \/ /\ impl = "transaction_parse"
          /\ data_map \in NameFiles
          /\ data \in Tables(TicketRows)

NextReconcile ==
    \/ LoadMapping
    \/ ReconcileRows
    \/ ApplyAgain
    \/ TX_LoadMapping
    \/ TX_CorrectEmails

SpecReconcile == InitReconcile /\ [][NextReconcile]_vars

\* --------------------------------------------------------------- claims
\* C11: applying the Column Reconciler to its own output, with the same
\* mapping, yields the values of the first application, also when the correct
\* value of one entry is the incorrect value of another
C11_ReconcilerIsIdempotent == pc = "written_again" => all_rows = once

\* the lines of a mapping file that could be read
MapLines == IF ReadCsvRaises(data_map) THEN <<>> ELSE data_map.lines

\* the entries that stand for a ticket number or for a value: of several
\* lines with the same key the last one counts
KeyedEntries(ticket) ==
    { i \in 1..Len(MapLines) :
        /\ Strip(MapLines[i].ticket) = Strip(ticket)
        /\ \A j \in (i + 1)..Len(MapLines) : Strip(MapLines[j].ticket) # Strip(ticket) }

GlobalEntries(value) ==
    { i \in 1..Len(MapLines) :
        /\ MapLines[i].incorrect = value
        /\ \A j \in (i + 1)..Len(MapLines) : MapLines[j].incorrect # value }

\* the row's ticket number has an entry whose incorrect value is the row's e-mail
RowMatches(row) ==
    IF impl = "google_upload"
    THEN \E i \in KeyedEntries(row.ticket) : Strip(MapLines[i].incorrect) = Strip(row.email)
    ELSE GlobalEntries(row.email) # {}

\* C12 as stated: a row with no matching entry, or with a matching identifier
\* but another value, has its name, e-mail, phone and label passed through
\* unchanged
C12_UnmatchedRowsPassUnchanged ==
    (impl \in Impls /\ pc = "written") =>
        \A i \in 1..Len(data) :
            ~RowMatches(data[i]) =>
                \A f \in { "first_name", "last_name", "email", "phone", "tag" } :
                    all_rows[i][f] = data[i][f]

\* what a global entry makes of a value
Patched(value) ==
    IF GlobalEntries(value) = {} THEN value
    ELSE MapLines[CHOOSE i \in GlobalEntries(value) : TRUE].correct

\* C12 amended: google_upload.py replaces the e-mail only when the ticket
\* number has an entry whose incorrect value is the stripped e-mail, and
\* otherwise passes the stripped e-mail through; phone and label are stripped
\* and the names stripped and title-cased in every row.  ticket_parse.py
\* replaces any field that equals the incorrect value of an entry, leaves
\* every other field as read, and title-cases the names.
C12_RewritesOnlyMatchingValues ==
    (impl \in Impls /\ pc = "written") =>
        \A i \in 1..Len(data) :
            LET in == data[i]
                out == all_rows[i]
            IN IF impl = "google_upload"
               THEN /\ out.email = IF RowMatches(in)
                                   THEN Strip(MapLines[CHOOSE e \in KeyedEntries(in.ticket) : TRUE].correct)
                                   ELSE Strip(in.email)
                    /\ out.phone = Strip(in.phone)
                    /\ out.tag = Strip(in.tag)
                    /\ out.first_name = Title(Strip(in.first_name))
                    /\ out.last_name = Title(Strip(in.last_name))
               ELSE /\ \A f \in { "email", "phone", "tag" } : out[f] = Patched(in[f])
                    /\ \A f \in { "first_name", "last_name" } : out[f] = Title(Patched(in[f]))

\* a row of google_upload.py whose e-mail was replaced
C12_Witness ==
    /\ impl = "google_upload"
    /\ pc = "written"
    /\ Len(data) = 1
    /\ RowMatches(data[1])
    /\ all_rows[1].email # Strip(data[1].email)

\* the mapping source is missing, empty, unreadable or lacks a column the
\* correction reads
MappingUnavailable ==
    \/ data_map.state # "ok"
    \/ data_map.lines = <<>>
    \/ /\ impl = "transaction_parse"
       /\ \E name \in { TeamMemberCol, EmailCol } :
             \A i \in 1..Len(data_map.columns) : Strip(data_map.columns[i]) # name

\* C13: with the mapping source missing, empty or unreadable (for
\* name_mapping.csv also: lacking the expected columns) the run does not fail
\* and no e-mail comes out changed
C13_UnavailableMappingIsNoOp ==
    MappingUnavailable =>
        /\ pc # "failed"
        /\ pc = "written" => \A i \in 1..Len(data) : Strip(all_rows[i].email) = Strip(data[i].email)

\* ======================================================================
\* Row Classifier and Report Writer: format_data of fundraising_parse.py and
\* the sheets of main in transaction_parse.py.  A title and a sheet name are
\* sequences of characters; a campaign description, which is only compared,
\* is one token.
\* ======================================================================
MaxTickets == 2

\* sheet_name.replace("/", "_")[:31]
SheetNameLimit == 31

RiderText == <<"R", "i", "d", "e", "r">>
VolunteerText == <<"V", "o", "l", "u", "n", "t", "e", "e", "r">>

\* the title "2025 - <text>"
Category(text) == <<"2", "0", "2", "5", " ", "-", " ">> \o text

\* the titles of the tickets, in the order groupby("Title") yields them
TitleOrder ==
    << Category(<<"A", "/", "B">>),
       Category(RiderText),
       Category(VolunteerText),
       Category(<<"W", "h", "o", "?">>),
       Category([i \in 1..SheetNameLimit |-> "x"]),
       Category([i \in 1..SheetNameLimit |-> IF i < SheetNameLimit THEN "x" ELSE "y"]),
       <<"2", "0", "2", "5", " ", "B", " ", "-", " ">> \o RiderText,
       <<"2", "0", "2", "5", " ", "G", "a", "l", "a">> >>

\* data after the filter on the current year: Name and Title stand for the columns
TicketInputs == [Title : { TitleOrder[i] : i \in 1..Len(TitleOrder) }, Name : { "a", "b" }]

\* title_counts.items()
title_counts ==
    LET present(t) == \E i \in 1..Len(data) : data[i].Title = t
    IN SelectSeq(TitleOrder, present)

\* title.rsplit("-", 1)[-1]
RECURSIVE RSplitLast(_, _)
RSplitLast(s, sep) ==
    IF s = <<>> \/ s[Len(s)] = sep THEN <<>>
    ELSE Append(RSplitLast(SubSeq(s, 1, Len(s) - 1), sep), s[Len(s)])

\* str.replace for one character
Replace(s, old, new) == [i \in 1..Len(s) |-> IF s[i] = old THEN new ELSE s[i]]

\* s[:n]
Truncate(s, n) == SubSeq(s, 1, IF Len(s) < n THEN Len(s) ELSE n)

\* lines 179-180
SheetName(title) == Truncate(Replace(RSplitLast(title, "-"), "/", "_"), SheetNameLimit)

\* the characters a sheet title must not hold
InvalidTitleChars == { "\\", "*", "?", ":", "/", "[", "]" }

\* wb.create_sheet raises ValueError for an empty title and for an invalid character
CreateRaises(name) == name = <<>> \/ \E i \in 1..Len(name) : name[i] \in InvalidTitleChars

\* wb.create_sheet gives a title that is taken the next free number as a suffix
UniqueTitle(name) ==
    LET taken == { wb[i].title : i \in 1..Len(wb) }
        digits == <<"1", "2", "3", "4">>
    IN IF name \notin taken THEN name
       ELSE name \o << digits[1 + Cardinality({ d \in 1..Len(digits) : name \o << digits[d] >> \in taken })] >>

\* data[data["Title"] == title]
RowsWith(table, column, value) ==
    LET has(r) == r[column] = value
    IN SelectSeq(table, has)

\* one round of the loop of format_data: a sheet for the next title
FD_WriteSheet ==
    /\ impl = "fundraising_parse"
    /\ pc = "sheets"
    /\ Len(sheet_name) < Len(title_counts)
    /\ LET title == title_counts[Len(sheet_name) + 1]
           name == SheetName(title)
       IN /\ sheet_name' = Append(sheet_name, name)
          /\ IF CreateRaises(name)
             THEN /\ pc' = "failed"
                  /\ UNCHANGED wb
             ELSE /\ wb' = Append(wb, [title |-> UniqueTitle(name),
                                       rows |-> RowsWith(data, "Title", title)])
                  /\ UNCHANGED pc
    /\ UNCHANGED << impl, sync, recon, snap, pager, printed >>

\* wb.save(path), which raises for a workbook without a sheet
FD_Save ==
    /\ impl = "fundraising_parse"
    /\ pc = "sheets"
    /\ Len(sheet_name) = Len(title_counts)
    /\ IF wb = <<>>
       THEN /\ pc' = "failed"
            /\ UNCHANGED printed
       ELSE /\ pc' = "saved"
            /\ printed' = Append(printed, "Generated Excel file")
    /\ UNCHANGED << impl, sync, recon, snap, pager, wb, sheet_name >>

\* ------------------------------------------- main of transaction_parse.py
NewAndReturning == <<"2025 Ride for Missing Children - MV New and Returning Riders">>
NewOrReturning == <<"2025 Ride for Missing Children - MV New / Returning Riders">>

description_to_sheet_map ==
    << [desc |-> NewOrReturning,
        sheet |-> <<"N", "e", "w", "A", "n", "d", "R", "e", "t", "u", "r", "n", "i", "n", "g">>],
       [desc |-> <<"2025 Ride for Missing Children - MV Reciprocal Riders">>,
        sheet |-> <<"R", "e", "c", "i", "p", "r", "o", "c", "a", "l">>],
       [desc |-> <<"2025 Ride for Missing Children - MV Volunteer">>,
        sheet |-> VolunteerText] >>

TransactionInputs ==
    [Title : { description_to_sheet_map[i].desc : i \in 1..Len(description_to_sheet_map) }
             \cup { NewAndReturning, <<"2025 Ride for Missing Children - MV Staff">> },
     Name : { "a", "b" }]

\* lines 62-65: df['Item Description'].replace(old, new); Title stands for the column
tickets_df ==
    [ i \in 1..Len(data) |->
        IF data[i].Title = NewAndReturning THEN [ data[i] EXCEPT !.Title = NewOrReturning ]
        ELSE data[i] ]

\* lines 144-149: one sheet for every entry of description_to_sheet_map
TX_WriteSheets ==
    /\ impl = "transaction_parse"
    /\ pc = "sheets"
    /\ sheet_name' = [ i \in 1..Len(description_to_sheet_map) |-> description_to_sheet_map[i].sheet ]
    /\ wb' = [ i \in 1..Len(description_to_sheet_map) |->
                 [ title |-> description_to_sheet_map[i].sheet,
                   rows |-> RowsWith(tickets_df, "Title", description_to_sheet_map[i].desc) ] ]
    /\ printed' = Append(printed, "Master Excel file saved")
    /\ pc' = "saved"
    /\ UNCHANGED << impl, sync, recon, snap, pager >>

\* ---------------------------------------------------------- specification
InitSheets ==
    /\ SyncIdle
    /\ EtlIdle("sheets")
    /\ wb = <<>>
    /\ sheet_name = <<>>
    /\ printed = <<>>
    /\ pc = "sheets"
    /\ \/ /\ impl = "fundraising_parse"
          /\ data \in SeqsUpTo(TicketInputs, MaxTickets)
       \/ /\ impl = "transaction_parse"
          /\ data \in SeqsUpTo(TransactionInputs, MaxTickets)

NextSheets ==
    \/ FD_WriteSheet
    \/ FD_Save
    \/ TX_WriteSheets

SpecSheets == InitSheets /\ [][NextSheets]_vars

\* --------------------------------------------------------------- claims
\* C14: every sheet name derived from a category has at most 31 characters
\* and none of the characters [ ] : * ? \ /
C14_SheetNamesAreValid ==
    \A i \in 1..Len(sheet_name) :
        /\ Len(sheet_name[i]) <= SheetNameLimit
        /\ \A j \in 1..Len(sheet_name[i]) : sheet_name[i][j] \notin InvalidTitleChars

\* C15: for the categories "2025 - Volunteer" and "2025 - Rider" the report
\* has exactly the two sheets "Rider" and "Volunteer", each with the rows of
\* its category
C15_RiderAndVolunteerSheets ==
    ( /\ impl = "fundraising_parse"
      /\ pc = "saved"
      /\ { data[i].Title : i \in 1..Len(data) } = { Category(RiderText), Category(VolunteerText) } )
    => /\ Len(wb) = Len(<< RiderText, VolunteerText >>)
       /\ \A text \in { RiderText, VolunteerText } :
             \E i \in 1..Len(wb) : /\ wb[i].title = text
                                   /\ wb[i].rows = RowsWith(data, "Title", Category(text))

\* two categories with one sheet name
Collision == \E i, j \in 1..Len(sheet_name) : i < j /\ sheet_name[i] = sheet_name[j]

\* C16: a collision of two categories on one sheet name is signalled by an
\* error or by a printed line; the run never goes on silently
C16_CollisionIsSignalled ==
    Collision => \/ pc = "failed"
                 \/ \E i \in 1..Len(printed) : printed[i] # "Generated Excel file"

RECURSIVE Flatten(_)
Flatten(w) == IF w = <<>> THEN <<>> ELSE Head(w).rows \o Flatten(Tail(w))

Count(table, row) == Cardinality({ i \in 1..Len(table) : table[i] = row })

\* C17: the rows of all written sheets together are the rows of the table that
\* was split, each as often as there, given no two categories share a name
C17_SheetsPartitionTheTable ==
    (pc = "saved" /\ ~Collision) =>
        LET table == IF impl = "transaction_parse" THEN tickets_df ELSE data
            written == Flatten(wb)
        IN \A row \in { table[i] : i \in 1..Len(table) } \cup { written[i] : i \in 1..Len(written) } :
              Count(written, row) = Count(table, row)

\* ======================================================================
\* Change Detector: save_and_compare_df of transaction_parse.py.  A table has
\* one column; a cell is held in memory with the type of its column and is
\* written to a file as text.
\* ======================================================================
MaxCalls == 2
MaxDfRows == 2

\* the texts pd.read_csv takes for numbers
IsNumeric(text) == text \in { "7", "8" }

\* a subset of the table read from transactions.csv: its column is int64 only
\* if every cell of the whole file was a number
DfInputs ==
    { [dtype |-> "int64", rows |-> r] : r \in SeqsUpTo({ "7", "8" }, MaxDfRows) }
    \cup { [dtype |-> "object", rows |-> r] : r \in SeqsUpTo({ "7", "8", "x" }, MaxDfRows) }

\* df.to_csv(filepath, index=False): the lines below the header
ToCsv(df) == df.rows

\* pd.read_csv(previous_file): a column of numbers only is read as int64
ReadCsv(lines) ==
    [ dtype |-> IF lines # <<>> /\ \A i \in 1..Len(lines) : IsNumeric(lines[i])
                THEN "int64" ELSE "object",
      rows |-> lines ]

\* the rows as drop_duplicates compares them: the number 7 is not the text "7"
Values(df) == [ i \in 1..Len(df.rows) |-> << df.dtype, df.rows[i] >> ]

\* variant of Compared: the previous table is taken once
Compared_once(df, previous_df) == Values(df) \o Values(previous_df)

\* pd.concat([df, previous_df, previous_df])
Compared(df, previous_df) == Values(df) \o Values(previous_df) \o Values(previous_df)

\* drop_duplicates(keep=False): the rows that occur once
DropDuplicates(rows) ==
    LET single(v) == Count(rows, v) = 1
    IN SelectSeq(rows, single)

\* the files glob finds for the description, the current one excluded
previous_files(filepath) == { f \in output_dir : f.kind = "snapshot" /\ f.time # filepath }

\* max(previous_files, key=os.path.getctime): with a clock that does not go
\* back, the file with the latest time in its name
Latest(files) == CHOOSE f \in files : \A g \in files : g.time <= f.time

\* one call of save_and_compare_df; the next call is at least a second later
SaveAndCompare ==
    /\ impl = "transaction_parse"
    /\ pc = "compare"
    /\ now < MaxCalls
    /\ \E df \in DfInputs :
          LET saved == [kind |-> "snapshot", time |-> now, lines |-> ToCsv(df)]
              comparison_df == DropDuplicates(Compared(df, ReadCsv(Latest(previous_files(now)).lines)))
          IN /\ data' = df
             /\ IF previous_files(now) = {}
                THEN /\ output_dir' = output_dir \cup { saved }
                     /\ printed' = << "No previous files found" >>
                ELSE IF comparison_df # <<>>
                THEN /\ output_dir' = output_dir \cup
                            { saved, [kind |-> "changes", time |-> now,
                                      lines |-> [ i \in 1..Len(comparison_df) |-> comparison_df[i][2] ]] }
                     /\ printed' = << "Changes saved" >>
                ELSE /\ output_dir' = output_dir \cup { saved }
                     /\ printed' = << "No changes detected." >>
    /\ now' = now + 1
    /\ UNCHANGED << impl, pc, sync, pager, data_map, mapping_dict, all_rows, once, wb, sheet_name >>

InitCompare ==
    /\ SyncIdle
    /\ EtlIdle("snap")
    /\ impl = "transaction_parse"
    /\ pc = "compare"
    /\ data = [dtype |-> "object", rows |-> <<>>]
    /\ printed = <<>>
    /\ output_dir = {}
    /\ now = 0

SpecCompare == InitCompare /\ [][SaveAndCompare]_vars

\* --------------------------------------------------------------- claims
\* the lines of the snapshot the latest call compared with, and of the changes
\* file it wrote (none: no line); from the second call on (now > 1) there is
\* a previous snapshot
PriorLines == (CHOOSE f \in output_dir : f.kind = "snapshot" /\ f.time = now - 2).lines
ChangesWritten == \E f \in output_dir : f.kind = "changes" /\ f.time = now - 1
ChangesLines == IF ChangesWritten
                THEN (CHOOSE f \in output_dir : f.kind = "changes" /\ f.time = now - 1).lines
                ELSE <<>>

\* C18: a table identical to the latest prior snapshot gives no changes and
\* no changes file; the prior snapshot plus exactly one more row gives a
\* changes file with exactly that row
C18_IdenticalAndOneMoreRow ==
    now > 1 =>
        /\ ToCsv(data) = PriorLines => ~ChangesWritten /\ printed = << "No changes detected." >>
        /\ \A row \in { "7", "8", "x" } :
              ToCsv(data) = Append(PriorLines, row) => ChangesWritten /\ ChangesLines = << row >>

Range(s) == { s[i] : i \in 1..Len(s) }

NewRows ==
    LET new(i) == /\ Values(data)[i] \notin Range(Values(ReadCsv(PriorLines)))
                  /\ \A j \in 1..Len(data.rows) : data.rows[j] = data.rows[i] => j = i
    IN { i \in 1..Len(data.rows) : new(i) }

MaxPages == 3

\* at least one page, a page with one or two items
ApiInputs ==
    { a \in SeqsUpTo({ <<"t1">>, <<"t2">>, <<"t1", "t2">> }, MaxPages) : a # <<>> }

\* the answer to GET ...?page=p with status 200: past the last page the data
\* are empty and meta.current_page is the page asked for
Response(p) ==
    [ data |-> IF p <= Len(api) THEN api[p] ELSE <<>>,
      current_page |-> p,
      last_page |-> Len(api) ]

\* if data["meta"]["current_page"] <= data["meta"]["last_page"]: continue
Continue(meta) == meta.current_page <= meta.last_page

\* one round of the while loop: a request, and either status 200 or the
\* return of an error text
RequestPage ==
    /\ impl = "fundraising_parse"
    /\ pc \in { "get_tickets", "get_campaign_members" }
    /\ requests' = Append(requests, page)
    /\ \/ /\ results' = results \o Response(page).data
          /\ page' = page + 1
          /\ pc' = IF Continue(Response(page)) THEN pc ELSE "returned"
       \/ /\ pc' = "error"
          /\ UNCHANGED << page, results >>
    /\ UNCHANGED << impl, sync, recon, sheets, snap, api >>

InitPager ==
    /\ SyncIdle
    /\ EtlIdle("pager")
    /\ impl = "fundraising_parse"
    /\ pc \in { "get_tickets", "get_campaign_members" }
    /\ page = 1
    /\ results = <<>>
    /\ requests = <<>>
    /\ api \in ApiInputs

SpecPager == InitPager /\ [][RequestPage]_vars

\* --------------------------------------------------------------- claims
RECURSIVE AllItems(_)
AllItems(pages) == IF pages = <<>> THEN <<>> ELSE Head(pages) \o AllItems(Tail(pages))

\* C20: the pages 1, 2, 3, ... are requested and the loop stops after the
\* first response whose current_page is last_page: no page beyond last_page is
\* requested, N pages take exactly N requests, and the result holds the items
\* of every page once
C20_StopsAtLastPage ==
    /\ \A i \in 1..Len(requests) : requests[i] = i /\ requests[i] <= Len(api)
    /\ pc = "returned" => /\ Len(requests) = Len(api)
                          /\ results = AllItems(api)


\* ------------------------------------------------------------------------
\* the createContact calls of one run of import_to_google_contacts_for_service

\* the contacts this run created
Created == { createCalls[i].resourceName : i \in 1..Len(createCalls) }

\* the keys of the cache as get_all_contacts built it at the start of the run
StartKeys == { Lower(Strip(contacts[c].email)) : c \in DOMAIN contacts \ Created } \ { <<>> }

\* C21: within one run of import_to_google_contacts_for_service no two
\* createContact calls carry e-mails that are equal once lowercased, and no
\* call carries an e-mail that was a key of the cache fetched at the start of
\* the run, whatever the rows of the CSV file are.
C21_OneCreatePerEmail ==
    Service =>
        /\ \A i, j \in 1..Len(createCalls) :
              Lower(createCalls[i].email) = Lower(createCalls[j].email) => i = j
        /\ \A i \in 1..Len(createCalls) : Lower(createCalls[i].email) \notin StartKeys

\* both rows of the file have the same e-mail in different letter case and
\* different labels, and the finished run issued one createContact for them
C21_Witness ==
    /\ Service
    /\ pc = "done"
    /\ Len(csv) = 2
    /\ csv[1].email # csv[2].email
    /\ Lower(Strip(csv[1].email)) = Lower(Strip(csv[2].email))
    /\ Strip(csv[1].label) # Strip(csv[2].label)
    /\ Len(createCalls) = 1
    /\ createCalls[1].email # <<>>

====
